---- MODULE Spec2Model ----
(***************************************************************************)
(* Sprint-planning board (evgeniVenkov/agile): the Express API of          *)
(* server/src/app.js over its MySQL tables, and the capability checks of   *)
(* the Vue client (App.vue).                                               *)
(*                                                                         *)
(* Tables are sets of rows.  A handler is one action per query it awaits:  *)
(* POST /api/stories/:id/complete is three (SELECT, INSERT, DELETE) per    *)
(* request in flight, register two, and GET /api/analytics/archive reads   *)
(* the clock in a step before its query, so requests of other clients      *)
(* interleave between them.  A function of the client that awaits a        *)
(* response is an action up to its await; the handler of the server is a   *)
(* step of its own, and the function goes on in a further step.            *)
(***************************************************************************)
EXTENDS Integers, Sequences, FiniteSets, TLC

(***************************************************************************)
(* Bounds of the model.                                                    *)
(***************************************************************************)
MaxUsers == 1       \* rows ever inserted into users
MaxStories == 2     \* rows ever inserted into stories
MaxTasks == 2       \* rows ever inserted into story_tasks
MaxArchived == 2    \* rows ever inserted into archived_stories
MaxCalls == 2       \* concurrent POST /complete requests
MaxSignups == 1     \* POST /api/auth/register requests in flight
MaxQueries == 2     \* GET /api/analytics/archive requests awaiting their query
MaxThreads == 2     \* calls of the client's async functions awaiting a response
MaxClock == 1       \* last value of the database clock
MaxPolicyUsers == 4 \* user ids of the capability matrix

UserIds == 1..MaxUsers
StoryIds == 1..MaxStories
TaskIds == 1..MaxTasks
ArchiveIds == 1..MaxArchived
Calls == 1..MaxCalls
Signups == 1..MaxSignups
Queries == 1..MaxQueries
Threads == 1..MaxThreads

(***************************************************************************)
(* Values.  SQL NULL / JS null and undefined are NullId for ids and        *)
(* NullStr for strings (both falsy in JS, as null is).                     *)
(***************************************************************************)
NullId == 0
NullStr == ""

Usernames == {"ann", "bob"}
Passwords == {"", "abc", "secret1"}
Statuses == {"backlog", "ready", "in-progress", "done"}
Roles == {"developer", "manager", "admin"}
NoRole == "none"

\* currentUser of the client: null, or the session object {id, role?}.
NoUser == [id |-> NullId, role |-> NoRole]
SessionUsers(ids) == {NoUser} \cup [id : ids, role : Roles \cup {NoRole}]
\* The sessions requests are sent from: none, the one login returns (no role)
\* and a manager's.
Actors == {NoUser} \cup [id : UserIds, role : {NoRole, "manager"}]

\* JSON values of the estimate of a request body: a number, a string (of a
\* number, or of none: numeric FALSE), null, or no such key.
JsNumber(n) == [type |-> "number", numeric |-> TRUE, n |-> n]
JsNumeral(n) == [type |-> "string", numeric |-> TRUE, n |-> n]
JsText == [type |-> "string", numeric |-> FALSE, n |-> 0]
JsNull == [type |-> "null", numeric |-> FALSE, n |-> 0]
Undefined == [type |-> "undefined", numeric |-> FALSE, n |-> 0]

\* Request bodies of POST /api/stories: (title, description, estimate).
StoryBody(title, description, estimate) ==
  [title |-> title, description |-> description, estimate |-> estimate]

StoryInputs ==
  { StoryBody("A", "d", JsNumber(3)),
    StoryBody("B", "e", JsNumber(0)),
    StoryBody("",  "d", JsNumber(3)),
    StoryBody("A", "",  JsNumber(3)) }

\* Estimates a request may carry: numbers from below 1 to above, strings,
\* null and none.
EstimateInputs ==
  { JsNumber(-2), JsNumber(0), JsNumber(1), JsNumber(3),
    JsNumeral(5), JsText, JsNull, Undefined }
TaskTitles == {"", "t"}

VARIABLES
  users,      \* table users: [id, username, password_hash]
  stories,    \* table stories: [id, title, description, estimate, status, owner_id, created_at]
  tasks,      \* table story_tasks: [id, story_id, title, done, created_at]
  archived,   \* table archived_stories
  nextId,     \* AUTO_INCREMENT counters of the four tables
  now,        \* the database clock (CURRENT_TIMESTAMP), in ticks since 00:00 UTC of day 0
  tz,         \* the server's local time zone: ticks ahead of UTC
  call,       \* the in-flight POST /complete requests
  signup,     \* the in-flight POST /api/auth/register requests
  query,      \* the GET /api/analytics/archive requests awaiting their query
  reply,      \* the response of the last single-query handler
  recording,  \* whether reply is kept (it is an output; keeping it is a choice)
  limit,      \* the size of the run: rows ever inserted into each table
  hist,       \* history: rows created and successful archive calls per story id
  policy      \* the client (App.vue): session, loaded stories, filters, calls in flight;
              \* and the capability matrix under evaluation (SpecPolicy)

vars == <<users, stories, tasks, archived, nextId, now, tz, call, signup, query, reply,
          recording, limit, hist, policy>>
env == <<tz, recording, limit>>
db == <<users, stories, tasks, archived, nextId>>

(***************************************************************************)
(* Responses.                                                              *)
(***************************************************************************)
Reply(op, status, body) == [op |-> op, status |-> status, body |-> body]
Message(m) == [message |-> m]
NoReply == Reply("none", 0, Message(""))

(***************************************************************************)
(* Sequences over a finite set of rows.                                    *)
(***************************************************************************)
Range(f) == {f[i] : i \in DOMAIN f}

\* The orders a result set can come back in: the enumerations of `rows` in
\* which no row precedes one that ORDER BY puts strictly before it.
Orderings(rows, Before(_, _)) ==
  { f \in [1..Cardinality(rows) -> rows] :
      /\ Range(f) = rows
      /\ \A i, j \in 1..Cardinality(rows) : i < j => ~Before(f[j], f[i]) }

NoOrder(r1, r2) == FALSE

(***************************************************************************)
(* The SELECT of GET /api/stories and of POST /complete: stories LEFT JOIN *)
(* users LEFT JOIN story_tasks.  A story without tasks yields one row with *)
(* NULL task columns, a story whose owner_id matches no user a NULL        *)
(* story_owner.                                                            *)
(***************************************************************************)
OwnerName(ownerId) ==
  IF \E u \in users : u.id = ownerId
  THEN (CHOOSE u \in users : u.id = ownerId).username
  ELSE NullStr

JoinRow(s, t) ==
  [ story_id |-> s.id, story_title |-> s.title,
    story_description |-> s.description, story_estimate |-> s.estimate,
    story_status |-> s.status, story_created_at |-> s.created_at,
    owner_id |-> s.owner_id, story_owner |-> OwnerName(s.owner_id),
    task_id |-> t.id, task_title |-> t.title, task_done |-> t.done,
    task_created_at |-> t.created_at ]

NullTask == [id |-> NullId, story_id |-> NullId, title |-> NullStr, done |-> 0, created_at |-> 0]

JoinRows(from) ==
  UNION { IF \E t \in tasks : t.story_id = s.id
          THEN {JoinRow(s, t) : t \in {t \in tasks : t.story_id = s.id}}
          ELSE {JoinRow(s, NullTask)} : s \in from }

\* A fault of ListOrder: ORDER BY s.created_at DESC, t.created_at DESC.
ListOrderTasksDescending(r1, r2) ==
  \/ r1.story_created_at > r2.story_created_at
  \/ /\ r1.story_created_at = r2.story_created_at
     /\ r1.task_created_at > r2.task_created_at

\* ORDER BY s.created_at DESC, t.created_at ASC
ListOrder(r1, r2) ==
  \/ r1.story_created_at > r2.story_created_at
  \/ /\ r1.story_created_at = r2.story_created_at
     /\ r1.task_created_at < r2.task_created_at

(***************************************************************************)
(* mapStories: folds the join rows into stories with their tasks, in order *)
(* of first appearance (a JS Map keeps insertion order).                   *)
(***************************************************************************)
StoryOfRow(row) ==
  [ id |-> row.story_id, title |-> row.story_title,
    description |-> row.story_description, estimate |-> row.story_estimate,
    status |-> row.story_status, owner |-> row.story_owner,
    ownerId |-> row.owner_id, createdAt |-> row.story_created_at,
    tasks |-> <<>> ]

TaskOfRow(row) ==
  [ id |-> row.task_id, title |-> row.task_title,
    done |-> (row.task_done # 0), createdAt |-> row.task_created_at ]

RECURSIVE mapStoriesFrom(_, _)
mapStoriesFrom(rows, storiesMap) ==
  IF rows = <<>> THEN storiesMap
  ELSE
    LET row == Head(rows)
        has == \E i \in DOMAIN storiesMap : storiesMap[i].id = row.story_id
        m1 == IF has THEN storiesMap ELSE Append(storiesMap, StoryOfRow(row))
        m2 == IF row.task_id # NullId
              THEN [ i \in DOMAIN m1 |->
                       IF m1[i].id = row.story_id
                       THEN [m1[i] EXCEPT !.tasks = Append(@, TaskOfRow(row))]
                       ELSE m1[i] ]
              ELSE m1
    IN mapStoriesFrom(Tail(rows), m2)

mapStories(rows) == mapStoriesFrom(rows, <<>>)

(***************************************************************************)
(* AuthorizationPolicy: the capability checks of the client (App.vue).     *)
(***************************************************************************)
Privileged == {"manager", "admin"}

\* A fault of userRole: the fallback role is a privileged one.
userRoleFallbackManager(user) ==
  IF user # NoUser /\ user.role # NoRole THEN user.role ELSE "manager"

\* currentUser.value?.role || 'developer'
userRole(user) ==
  IF user # NoUser /\ user.role # NoRole THEN user.role ELSE "developer"

canDeleteStory(user) == userRole(user) \in Privileged
canArchiveStory(user) == userRole(user) \in Privileged
canViewAnalytics(user) == userRole(user) \in Privileged

canEditStory(user, story) ==
  IF user = NoUser THEN FALSE
  ELSE IF userRole(user) \in Privileged THEN TRUE
  ELSE story.ownerId = user.id

(***************************************************************************)
(* What the schema (schema.sql) does on the handlers' behalf.              *)
(***************************************************************************)
\* created_at / completed_at DEFAULT CURRENT_TIMESTAMP
CurrentTimestamp == now

\* story_tasks.story_id REFERENCES stories(id)
StoryTasksForeignKey(storyId) == \E s \in stories : s.id = storyId

\* ... ON DELETE CASCADE: the tasks that survive the deletion of story `id`
\* A variant of CascadeTasks: the foreign key without ON DELETE CASCADE.
CascadeTasksNone(rows, id) == rows

CascadeTasks(rows, id) == {t \in rows : t.story_id # id}

(***************************************************************************)
(* Initial state: the schema is provisioned, the tables are empty and no   *)
(* request is in flight.                                                   *)
(***************************************************************************)
NoStory == [id |-> NullId]
IdleCall ==
  [ pc |-> "idle", id |-> NullId, story |-> NoStory, insertId |-> NullId,
    resp |-> NoReply, failedAt |-> "none" ]
NoAnswer == [edit |-> FALSE, delete |-> FALSE, archive |-> FALSE, analytics |-> FALSE]
IdleSignup == [pc |-> "idle", username |-> NullStr, password |-> NullStr]
IdleQuery == [pc |-> "idle", at |-> 0]

InitBoard ==
  /\ users = {}
  /\ stories = {}
  /\ tasks = {}
  /\ archived = {}
  /\ nextId = [users |-> 1, stories |-> 1, tasks |-> 1, archived |-> 1]
  /\ now = 0
  /\ call = [p \in Calls |-> IdleCall]
  /\ signup = [r \in Signups |-> IdleSignup]
  /\ query = [q \in Queries |-> IdleQuery]
  /\ reply = NoReply
  /\ hist = [created |-> [id \in StoryIds |-> 0], ok |-> [id \in StoryIds |-> 0]]

\* res.status(status).json(body)
Respond(op, status, body) ==
  /\ reply' = IF recording THEN Reply(op, status, body) ELSE reply
  /\ UNCHANGED <<now, env, query, call, signup, hist>>

InternalError == Message("internal error")

(***************************************************************************)
(* POST /api/auth/register                                                 *)
(***************************************************************************)
bcryptHash(password) == <<"bcrypt", password>>

\* The response as reply keeps it
Kept(response) == IF recording THEN response ELSE reply

\* The request is valid: username and password are given, the password has
\* six characters or more
RegisterValid(username, password) ==
  username # NullStr /\ password # NullStr /\ Len(password) >= 6

\* The handler up to its first query, SELECT id FROM users WHERE username = ?.
\* An invalid request and a taken username are answered; otherwise the
\* handler goes on to hash the password and to insert.
RegisterSelect(r, username, password) ==
  /\ signup[r].pc = "idle"
  /\ IF username = NullStr \/ password = NullStr
     THEN /\ reply' = Kept(Reply("register", 400,
                                  Message("username and password are required")))
          /\ UNCHANGED signup
     ELSE IF Len(password) < 6
     THEN /\ reply' = Kept(Reply("register", 400,
                                  Message("password must be at least 6 characters")))
          /\ UNCHANGED signup
     ELSE IF \E u \in users : u.username = username
     THEN /\ reply' = Kept(Reply("register", 409, Message("username already exists")))
          /\ UNCHANGED signup
     ELSE /\ signup' = [signup EXCEPT ![r] =
                          [pc |-> "selected", username |-> username, password |-> password]]
          /\ UNCHANGED reply
  /\ UNCHANGED <<db, now, env, query, call, hist>>

\* The SELECT is rejected: the catch answers 500.
RegisterSelectFails(r, username, password) ==
  /\ signup[r].pc = "idle"
  /\ RegisterValid(username, password)
  /\ reply' = Kept(Reply("register", 500, InternalError))
  /\ UNCHANGED <<db, now, env, query, call, signup, hist>>

\* bcrypt.hash and INSERT INTO users (username, password_hash).  The row is
\* added whatever the table holds by now: a request that selected before
\* another one inserted the same name stores the name a second time when
\* users.username has no unique key (with the key the INSERT is rejected:
\* RegisterInsertFails).
RegisterInsert(r) ==
  /\ signup[r].pc = "selected"
  /\ nextId.users <= limit.users
  /\ users' = users \cup
       {[id |-> nextId.users, username |-> signup[r].username,
         password_hash |-> bcryptHash(signup[r].password)]}
  /\ nextId' = [nextId EXCEPT !.users = @ + 1]
  /\ signup' = [signup EXCEPT ![r] = IdleSignup]
  /\ reply' = Kept(Reply("register", 201,
                         [id |-> nextId.users, username |-> signup[r].username]))
  /\ UNCHANGED <<stories, tasks, archived, now, env, query, call, hist>>

\* The INSERT is rejected (a duplicate of a unique username, or any other
\* failure): the catch answers 500.
RegisterInsertFails(r) ==
  /\ signup[r].pc = "selected"
  /\ signup' = [signup EXCEPT ![r] = IdleSignup]
  /\ reply' = Kept(Reply("register", 500, InternalError))
  /\ UNCHANGED <<db, now, env, query, call, hist>>

(***************************************************************************)
(* GET /api/stories                                                        *)
(***************************************************************************)
GetStories ==
  \E rows \in Orderings(JoinRows(stories), ListOrder) :
    /\ Respond("stories:list", 200, [stories |-> mapStories(rows)])
    /\ UNCHANGED db

(***************************************************************************)
(* POST /api/stories                                                       *)
(***************************************************************************)
Max(a, b) == IF a >= b THEN a ELSE b

\* Number(value): [finite, n]; NaN for a string of no number and undefined,
\* 0 for null.
NaN == [finite |-> FALSE, n |-> 0]
Number(value) ==
  IF value.numeric THEN [finite |-> TRUE, n |-> value.n]
  ELSE IF value.type = "null" THEN [finite |-> TRUE, n |-> 0]
  ELSE NaN

\* The default of the destructuring: estimate = 1 (for undefined only).
DefaultEstimate(estimate) ==
  IF estimate.type = "undefined" THEN JsNumber(1) ELSE estimate

\* A fault of normalizedEstimate: Math.max is left out.
normalizedEstimateNoFloor(estimate) ==
  IF Number(DefaultEstimate(estimate)).finite
  THEN Number(DefaultEstimate(estimate)).n ELSE 1

\* Number.isFinite(Number(estimate)) ? Math.max(1, Number(estimate)) : 1
normalizedEstimate(estimate) ==
  IF Number(DefaultEstimate(estimate)).finite
  THEN Max(1, Number(DefaultEstimate(estimate)).n) ELSE 1

PostStories(input, status, ownerId) ==
  IF ownerId = NullId
  THEN /\ Respond("stories:create", 401, Message("ownerId required"))
       /\ UNCHANGED db
  ELSE IF input.title = NullStr \/ input.description = NullStr
  THEN /\ Respond("stories:create", 400, Message("title and description required"))
       /\ UNCHANGED db
  ELSE /\ nextId.stories <= limit.stories
       /\ stories' = stories \cup
            {[ id |-> nextId.stories, title |-> input.title,
               description |-> input.description,
               estimate |-> normalizedEstimate(input.estimate),
               status |-> status, owner_id |-> ownerId,
               created_at |-> CurrentTimestamp ]}
       /\ nextId' = [nextId EXCEPT !.stories = @ + 1]
       /\ Respond("stories:create", 201,
            [ id |-> nextId.stories, title |-> input.title,
              description |-> input.description,
              estimate |-> normalizedEstimate(input.estimate), status |-> status ])
       /\ UNCHANGED <<users, tasks, archived>>

(***************************************************************************)
(* PATCH /api/stories/:id   (body {status, userId}; userId is not read)    *)
(***************************************************************************)
StatusInputs == Statuses \cup {NullStr, "bogus"}

\* A variant of UpdateStatus: a forward-only workflow, the status is written
\* only when it is not before the story's own.
StatusRank(status) ==
  CASE status = "backlog" -> 1
    [] status = "ready" -> 2
    [] status = "in-progress" -> 3
    [] status = "done" -> 4
    [] OTHER -> 0

UpdateStatusForwardOnly(rows, id, status) ==
  { IF s.id = id /\ StatusRank(status) >= StatusRank(s.status)
    THEN [s EXCEPT !.status = status] ELSE s : s \in rows }

UpdateStatus(rows, id, status) ==
  {IF s.id = id THEN [s EXCEPT !.status = status] ELSE s : s \in rows}

PatchStory(actor, id, status) ==
  IF status \notin {"backlog", "ready", "in-progress", "done"}
  THEN /\ Respond("stories:update", 400, Message("invalid status"))
       /\ UNCHANGED db
  ELSE /\ stories' = UpdateStatus(stories, id, status)
       /\ Respond("stories:update", 200, [id |-> id, status |-> status])
       /\ UNCHANGED <<users, tasks, archived, nextId>>

(***************************************************************************)
(* POST /api/stories/:id/tasks                                             *)
(***************************************************************************)
PostTask(id, title) ==
  IF title = NullStr
  THEN /\ Respond("tasks:create", 400, Message("title required"))
       /\ UNCHANGED db
  ELSE IF ~StoryTasksForeignKey(id)
  THEN /\ Respond("tasks:create", 500, InternalError)
       /\ UNCHANGED db
  ELSE /\ nextId.tasks <= limit.tasks
       /\ tasks' = tasks \cup
            {[ id |-> nextId.tasks, story_id |-> id, title |-> title,
               done |-> 0, created_at |-> CurrentTimestamp ]}
       /\ nextId' = [nextId EXCEPT !.tasks = @ + 1]
       /\ Respond("tasks:create", 201,
            [id |-> nextId.tasks, title |-> title, done |-> FALSE])
       /\ UNCHANGED <<users, stories, archived>>

(***************************************************************************)
(* PATCH /api/stories/:storyId/tasks/:taskId                               *)
(***************************************************************************)
DoneInputs == {"true", "false", "undefined"}

\* A fault of UpdateDone: WHERE id = ? without AND story_id = ?.
UpdateDoneAnyStory(rows, taskId, storyId, bit) ==
  {IF t.id = taskId THEN [t EXCEPT !.done = bit] ELSE t : t \in rows}

UpdateDone(rows, taskId, storyId, bit) ==
  { IF t.id = taskId /\ t.story_id = storyId THEN [t EXCEPT !.done = bit] ELSE t
    : t \in rows }

\* A fault of PatchTask: the UPDATE runs, with the flag coerced, before the
\* flag is validated.
PatchTaskUpdatesFirst(storyId, taskId, done) ==
  /\ tasks' = UpdateDone(tasks, taskId, storyId, IF done = "true" THEN 1 ELSE 0)
  /\ IF done \notin {"true", "false"}
     THEN Respond("tasks:update", 400, Message("done flag required"))
     ELSE Respond("tasks:update", 200, [id |-> taskId, done |-> (done = "true")])
  /\ UNCHANGED <<users, stories, archived, nextId>>

PatchTask(storyId, taskId, done) ==
  IF done \notin {"true", "false"}
  THEN /\ Respond("tasks:update", 400, Message("done flag required"))
       /\ UNCHANGED db
  ELSE /\ tasks' = UpdateDone(tasks, taskId, storyId, IF done = "true" THEN 1 ELSE 0)
       /\ Respond("tasks:update", 200, [id |-> taskId, done |-> (done = "true")])
       /\ UNCHANGED <<users, stories, archived, nextId>>

(***************************************************************************)
(* DELETE /api/stories/:storyId/tasks/:taskId                              *)
(***************************************************************************)
\* A fault of DeleteTaskRows: WHERE id = ? without AND story_id = ?.
DeleteTaskRowsAnyStory(rows, taskId, storyId) == {t \in rows : t.id # taskId}

DeleteTaskRows(rows, taskId, storyId) ==
  {t \in rows : ~(t.id = taskId /\ t.story_id = storyId)}

DeleteTask(storyId, taskId) ==
  /\ tasks' = DeleteTaskRows(tasks, taskId, storyId)
  /\ IF tasks' = tasks
     THEN Respond("tasks:delete", 404, Message("task not found"))
     ELSE Respond("tasks:delete", 204, Message(""))
  /\ UNCHANGED <<users, stories, archived, nextId>>

(***************************************************************************)
(* DELETE /api/stories/:id   (body {userId}; not read)                     *)
(***************************************************************************)
DeleteStoryRows(rows, id) == {s \in rows : s.id # id}

DeleteStory(actor, id) ==
  /\ stories' = DeleteStoryRows(stories, id)
  /\ tasks' = IF stories' = stories THEN tasks ELSE CascadeTasks(tasks, id)
  /\ IF stories' = stories
     THEN Respond("stories:delete", 404, Message("story not found"))
     ELSE Respond("stories:delete", 204, Message(""))
  /\ UNCHANGED <<users, archived, nextId>>

(***************************************************************************)
(* DELETE /api/archive/:id                                                 *)
(***************************************************************************)
\* A fault of DeleteArchivedRows: WHERE original_story_id = ? for WHERE id = ?.
DeleteArchivedRowsOfStory(rows, id) == {a \in rows : a.original_story_id # id}

DeleteArchivedRows(rows, id) == {a \in rows : a.id # id}

DeleteArchive(id) ==
  /\ archived' = DeleteArchivedRows(archived, id)
  /\ IF archived' = archived
     THEN Respond("archive:delete", 404, Message("archived story not found"))
     ELSE Respond("archive:delete", 204, Message(""))
  /\ UNCHANGED <<users, stories, tasks, nextId>>

(***************************************************************************)
(* POST /api/stories/:id/complete   (body {userId}; not read)              *)
(*                                                                         *)
(* Three awaited queries.  The SELECT has no ORDER BY, so its rows come    *)
(* back in any order.  The INSERT and the DELETE can each be rejected by   *)
(* the database; the handler's single catch answers 500 for either.        *)
(***************************************************************************)
JSONstringify(list) == [json |-> "array", items |-> list]

\* A fault of ArchivedRow: the story's own status is copied.
ArchivedRowKeepsStatus(id, story) ==
  [ id |-> id,
    original_story_id |-> story.id,
    title |-> story.title,
    description |-> story.description,
    estimate |-> story.estimate,
    status |-> story.status,
    owner_id |-> story.ownerId,
    owner_name |-> story.owner,
    tasks_json |-> JSONstringify(story.tasks),
    completed_at |-> CurrentTimestamp ]

\* The parameter list of INSERT INTO archived_stories (completed_at is the
\* column default).
ArchivedRow(id, story) ==
  [ id |-> id,
    original_story_id |-> story.id,
    title |-> story.title,
    description |-> story.description,
    estimate |-> story.estimate,
    status |-> "done",
    owner_id |-> story.ownerId,
    owner_name |-> story.owner,
    tasks_json |-> JSONstringify(story.tasks),
    completed_at |-> CurrentTimestamp ]

\* A variant of InsertArchived: one archive row per original story (INSERT
\* IGNORE under a unique key), the guard the handler does not have.
InsertArchivedOnce(rows, row) ==
  IF \E a \in rows : a.original_story_id = row.original_story_id
  THEN rows ELSE rows \cup {row}

InsertArchived(rows, row) == rows \cup {row}

Finish(p, status, body, failedAt) ==
  call' = [call EXCEPT ![p] =
    [ pc |-> "done", id |-> call[p].id, story |-> NoStory, insertId |-> NullId,
      resp |-> Reply("stories:complete", status, body), failedAt |-> failedAt ]]

\* A fault of StoryRows: the WHERE clause is missing.
StoryRowsUnfiltered(id) == JoinRows(stories)

\* FROM stories s LEFT JOIN ... WHERE s.id = ?
StoryRows(id) == JoinRows({s \in stories : s.id = id})

CompleteSelect(p, actor, id) ==
  /\ call[p].pc \in {"idle", "done"}
  /\ \E rows \in Orderings(StoryRows(id), NoOrder) :
       IF Len(rows) = 0
       THEN call' = [call EXCEPT ![p] =
              [ pc |-> "done", id |-> id, story |-> NoStory, insertId |-> NullId,
                resp |-> Reply("stories:complete", 404, Message("story not found")),
                failedAt |-> "none" ]]
       ELSE call' = [call EXCEPT ![p] =
              [ pc |-> "selected", id |-> id, story |-> mapStories(rows)[1],
                insertId |-> NullId, resp |-> NoReply, failedAt |-> "none" ]]
  /\ UNCHANGED <<db, now, env, query, signup, reply, hist>>

CompleteInsert(p) ==
  /\ call[p].pc = "selected"
  /\ nextId.archived <= limit.archived
  /\ archived' = InsertArchived(archived, ArchivedRow(nextId.archived, call[p].story))
  /\ nextId' = [nextId EXCEPT !.archived = @ + 1]
  /\ call' = [call EXCEPT ![p].pc = "inserted", ![p].insertId = nextId.archived]
  /\ hist' = [hist EXCEPT !.created[call[p].id] = @ + 1]
  /\ UNCHANGED <<users, stories, tasks, now, env, query, signup, reply>>

CompleteInsertFails(p) ==
  /\ call[p].pc = "selected"
  /\ Finish(p, 500, InternalError, "insert")
  /\ UNCHANGED <<db, now, env, query, signup, reply, hist>>

CompleteDelete(p) ==
  /\ call[p].pc = "inserted"
  /\ stories' = DeleteStoryRows(stories, call[p].id)
  /\ tasks' = CascadeTasks(tasks, call[p].id)
  /\ Finish(p, 200, [archivedId |-> call[p].insertId], "none")
  /\ hist' = [hist EXCEPT !.ok[call[p].id] = @ + 1]
  /\ UNCHANGED <<users, archived, nextId, now, env, query, signup, reply>>

CompleteDeleteFails(p) ==
  /\ call[p].pc = "inserted"
  /\ Finish(p, 500, InternalError, "delete")
  /\ UNCHANGED <<db, now, env, query, signup, reply, hist>>

(***************************************************************************)
(* GET /api/analytics/archive?from=&to=&userId=   (userId is not read)     *)
(*                                                                         *)
(* Time is counted in ticks, DAY_MS ticks to the day.  A Date is its       *)
(* instant; a date-only string 'YYYY-MM-DD' parses to 00:00 UTC of its     *)
(* day.  setHours works in the server's local zone, toISOString in UTC.    *)
(***************************************************************************)
DAY_MS == 4

NullDate == [isNull |-> TRUE, time |-> 0]
Date(t) == [isNull |-> FALSE, time |-> t]

NoParam == [kind |-> "absent", day |-> 0]
BadParam == [kind |-> "garbage", day |-> 0]
DayParam(d) == [kind |-> "date", day |-> d]

parseDateParam(value) ==
  IF value.kind = "absent" THEN NullDate
  ELSE IF value.kind = "garbage" THEN NullDate
  ELSE Date(value.day * DAY_MS)

\* x ?? y
Coalesce(x, y) == IF x.isNull THEN y ELSE x

\* date.setHours(0, 0, 0, 0) and date.setHours(23, 59, 59, 999)
StartOfLocalDay(t) == ((t + tz) \div DAY_MS) * DAY_MS - tz
EndOfLocalDay(t) == StartOfLocalDay(t) + (DAY_MS - 1)

\* new Date(completedAt).toISOString().slice(0, 10)
dateKey(t) == t \div DAY_MS

\* Window without the exchange of a from that is later than to
WindowNoSwap(at, from, to) ==
  LET toDate == Coalesce(parseDateParam(to), Date(at))
      fromDate == Coalesce(parseDateParam(from), Date(toDate.time - 29 * DAY_MS))
  IN [from |-> StartOfLocalDay(fromDate.time), to |-> EndOfLocalDay(toDate.time)]

\* fromBoundary and toBoundary of a request that read the clock at `at`
\* (const now = new Date()).
Window(at, from, to) ==
  LET toDate0 == Coalesce(parseDateParam(to), Date(at))
      fromDate0 == Coalesce(parseDateParam(from), Date(toDate0.time - 29 * DAY_MS))
      swap == fromDate0.time > toDate0.time
      fromDate == IF swap THEN toDate0 ELSE fromDate0
      toDate == IF swap THEN fromDate0 ELSE toDate0
  IN [from |-> StartOfLocalDay(fromDate.time), to |-> EndOfLocalDay(toDate.time)]

\* BETWEEN that leaves out the rows completed at the last instant of the window
RowsBefore(rows, window) ==
  {r \in rows : window.from <= r.completed_at /\ r.completed_at < window.to}

\* WHERE completed_at BETWEEN ? AND ?
RowsBetween(rows, window) ==
  {r \in rows : window.from <= r.completed_at /\ r.completed_at <= window.to}

\* ORDER BY completed_at DESC
CompletedOrder(r1, r2) == r1.completed_at > r2.completed_at

\* The tasks of a row: an array column value as it is, NULL, '' and text
\* that does not parse as [], any other parsed JSON value as that value.
\* A column value the driver has already decoded is parsed only if it is
\* truthy (the number 0 is not, and stays []); it goes through JSON.parse as
\* its string: an object ("[object Object]") and a string of no JSON text
\* do not parse, a number other than 0 parses to itself.
ParsedTasks(raw) ==
  IF raw.json \in {"sqlnull", "malformed", "decoded object", "decoded string"}
  THEN [json |-> "array", items |-> <<>>]
  ELSE IF raw.json = "decoded number"
  THEN IF raw.n = 0 THEN [json |-> "array", items |-> <<>>] ELSE [json |-> "number"]
  ELSE raw

ArchiveStory(row) ==
  [ id |-> row.id, originalId |-> row.original_story_id, title |-> row.title,
    description |-> row.description, estimate |-> row.estimate,
    status |-> row.status, ownerId |-> row.owner_id, ownerName |-> row.owner_name,
    tasks |-> ParsedTasks(row.tasks_json), completedAt |-> row.completed_at ]

\* story.tasks?.length ?? 0
TasksLength(t) ==
  IF t.json = "array" THEN Len(t.items)
  ELSE IF t.json = "string" THEN t.length
  ELSE 0

\* story.tasks?.filter(...) throws a TypeError unless tasks is an array or null
FilterThrows(t) == t.json \notin {"array", "null"}

DoneCount(t) ==
  IF t.json = "array" THEN Cardinality({i \in DOMAIN t.items : t.items[i].done})
  ELSE 0

RECURSIVE Summarize(_, _)
Summarize(list, acc) ==
  IF list = <<>> THEN acc
  ELSE LET story == Head(list) IN
    Summarize(Tail(list),
      [ totalStories |-> acc.totalStories + 1,
        totalPoints |-> acc.totalPoints + story.estimate,
        totalTasks |-> acc.totalTasks + TasksLength(story.tasks),
        doneTasks |-> acc.doneTasks + DoneCount(story.tasks),
        owners |-> IF story.ownerName # NullStr
                   THEN acc.owners \cup {story.ownerName} ELSE acc.owners ])

RECURSIVE velocityMap(_, _)
velocityMap(list, map) ==
  IF list = <<>> THEN map
  ELSE LET story == Head(list)
           key == dateKey(story.completedAt)
           has == \E i \in DOMAIN map : map[i].date = key
           add(e) == [date |-> key, stories |-> e.stories + 1,
                      points |-> e.points + story.estimate]
       IN velocityMap(Tail(list),
            IF has
            THEN [i \in DOMAIN map |-> IF map[i].date = key THEN add(map[i]) ELSE map[i]]
            ELSE Append(map, add([date |-> key, stories |-> 0, points |-> 0])))

\* The buckets in the insertion order of the Map
InsertionOrder(entries) == entries

\* Array.prototype.sort by date: the keys of a Map are distinct
RECURSIVE SortByDate(_)
SortByDate(entries) ==
  IF entries = <<>> THEN <<>>
  ELSE LET least == CHOOSE i \in DOMAIN entries :
                      \A j \in DOMAIN entries : entries[i].date <= entries[j].date
       IN <<entries[least]>> \o
          SortByDate([k \in 1..(Len(entries) - 1) |->
                        IF k < least THEN entries[k] ELSE entries[k + 1]])

AnalyticsBody(window, list) ==
  LET summary == Summarize(list,
        [totalStories |-> 0, totalPoints |-> 0, totalTasks |-> 0, doneTasks |-> 0,
         owners |-> {}])
  IN [ range |-> window,
       summary |-> [ totalStories |-> summary.totalStories,
                     totalPoints |-> summary.totalPoints,
                     totalTasks |-> summary.totalTasks,
                     doneTasks |-> summary.doneTasks,
                     ownerCount |-> Cardinality(summary.owners) ],
       velocity |-> SortByDate(velocityMap(list, <<>>)),
       stories |-> list ]

\* The handler up to `await pool.query(...)`: it reads the clock, and the
\* boundaries of its query follow from that reading and its parameters.
GetAnalyticsArchiveNow(q) ==
  /\ query[q].pc = "idle"
  /\ query' = [query EXCEPT ![q] = [pc |-> "waiting", at |-> now]]
  /\ UNCHANGED <<db, now, env, call, signup, reply, hist>>

\* The query of request q runs over the archive as it is by now, between
\* the boundaries of the clock the request read, and the response is sent.
GetAnalyticsArchive(q, actor, from, to) ==
  /\ query[q].pc = "waiting"
  /\ \E rows \in Orderings(RowsBetween(archived, Window(query[q].at, from, to)),
                            CompletedOrder) :
       LET list == [i \in DOMAIN rows |-> ArchiveStory(rows[i])] IN
       reply' = Kept(IF \E i \in DOMAIN list : FilterThrows(list[i].tasks)
                     THEN Reply("analytics:archive", 500, InternalError)
                     ELSE Reply("analytics:archive", 200,
                                AnalyticsBody(Window(query[q].at, from, to), list)))
  /\ query' = [query EXCEPT ![q] = IdleQuery]
  /\ UNCHANGED <<db, now, env, call, signup, hist>>

\* The query of request q is rejected: the catch answers 500.
GetAnalyticsArchiveFails(q) ==
  /\ query[q].pc = "waiting"
  /\ reply' = Kept(Reply("analytics:archive", 500, InternalError))
  /\ query' = [query EXCEPT ![q] = IdleQuery]
  /\ UNCHANGED <<db, now, env, call, signup, hist>>

(***************************************************************************)
(* The client (App.vue).  A thread is one call of an async function of the *)
(* component from its first `await` on: the request it awaits (by the name *)
(* of its api.js function) and where the request is: sent, being served    *)
(* (in a slot of `call`, `signup` or `query`; a login is `selected` when   *)
(* its SELECT has found a row) or answered, with the response.  Any        *)
(* function can be called while another call, of it or of another          *)
(* function, awaits.                                                       *)
(***************************************************************************)
IdleThread ==
  [pc |-> "idle", request |-> [api |-> "none"], response |-> NoReply, after |-> "return"]

\* const today = new Date(); isoDate(today) and isoDate(today - 29 days):
\* the UTC day of today and the day 29 days before it, as dates.
defaultArchiveTo == DayParam(dateKey(now))
defaultArchiveFrom == DayParam(dateKey(now - 29 * DAY_MS))

\* The component after setup, before it is mounted: no stored session.
NoPolicy ==
  [ user |-> NoUser, stories |-> <<>>,
    archiveFilters |-> [from |-> defaultArchiveFrom, to |-> defaultArchiveTo],
    mounted |-> FALSE, threads |-> [k \in Threads |-> IdleThread],
    story |-> [ownerId |-> NullId], evaluated |-> FALSE, can |-> NoAnswer ]

(***************************************************************************)
(* The database clock.                                                     *)
(***************************************************************************)
TickTo(last) ==
  /\ now < last
  /\ now' = now + 1
  /\ UNCHANGED <<db, env, query, call, signup, reply, hist, policy>>

Tick == TickTo(MaxClock)

(***************************************************************************)
(* The requests clients send, over the given input sets, and the steps of  *)
(* the POST /complete requests of the given calls.                         *)
(***************************************************************************)
Requests(actors, usernames, passwords, inputs, createStatuses, patchStatuses, taskTitles, doneInputs) ==
  \/ \E username \in usernames, password \in passwords :
       RegisterSelect(1, username, password) /\ UNCHANGED policy
  \/ \E username \in usernames, password \in passwords :
       RegisterSelectFails(1, username, password) /\ UNCHANGED policy
  \/ RegisterInsert(1) /\ UNCHANGED policy
  \/ RegisterInsertFails(1) /\ UNCHANGED policy
  \/ \E input \in inputs, status \in createStatuses,
        ownerId \in {NullId} \cup {u.id : u \in users} :
       PostStories(input, status, ownerId) /\ UNCHANGED policy
  \/ \E actor \in actors, id \in StoryIds, status \in patchStatuses :
       PatchStory(actor, id, status) /\ UNCHANGED policy
  \/ \E id \in StoryIds, title \in taskTitles : PostTask(id, title) /\ UNCHANGED policy
  \/ \E storyId \in StoryIds, taskId \in TaskIds, done \in doneInputs :
       PatchTask(storyId, taskId, done) /\ UNCHANGED policy
  \/ \E storyId \in StoryIds, taskId \in TaskIds :
       DeleteTask(storyId, taskId) /\ UNCHANGED policy
  \/ \E actor \in actors, id \in StoryIds : DeleteStory(actor, id) /\ UNCHANGED policy
  \/ \E id \in ArchiveIds : DeleteArchive(id) /\ UNCHANGED policy

Completion(actors, calls) ==
  \/ \E p \in calls, actor \in actors, id \in StoryIds :
       CompleteSelect(p, actor, id) /\ UNCHANGED policy
  \/ \E p \in calls : CompleteInsert(p) /\ UNCHANGED policy
  \/ \E p \in calls : CompleteInsertFails(p) /\ UNCHANGED policy
  \/ \E p \in calls : CompleteDelete(p) /\ UNCHANGED policy
  \/ \E p \in calls : CompleteDeleteFails(p) /\ UNCHANGED policy

Reads(actors, dates) ==
  \/ GetStories /\ UNCHANGED policy
  \/ GetAnalyticsArchiveNow(1) /\ UNCHANGED policy
  \/ \E actor \in actors, from \in dates, to \in dates :
       GetAnalyticsArchive(1, actor, from, to) /\ UNCHANGED policy

(***************************************************************************)
(* The environment of a run: the server's time zone, whether responses are *)
(* recorded, and how many rows the run inserts into each table.            *)
(***************************************************************************)
Limit(nStories, nTasks, nArchived) ==
  [users |-> MaxUsers, stories |-> nStories, tasks |-> nTasks, archived |-> nArchived]

Env(zone, rec, lim) == tz = zone /\ recording = rec /\ limit = lim

(***************************************************************************)
(* Spec: the board as one client at a time sees it.  Every handler, with   *)
(* valid and invalid inputs and any session as the actor; one POST         *)
(* /complete request at a time; every response is recorded.                *)
(***************************************************************************)
StartBoard(rec, lim) == InitBoard /\ Env(0, rec, lim) /\ policy = NoPolicy

BoardStories == 1    \* stories ever created in Spec
BoardTasks == 1      \* tasks ever created in Spec
BoardArchived == 1   \* archive rows ever created in Spec

Init == StartBoard(TRUE, Limit(BoardStories, BoardTasks, BoardArchived))

Next ==
  \/ Requests(Actors, {"ann", NullStr}, Passwords, StoryInputs,
              {"backlog"}, StatusInputs, TaskTitles, DoneInputs)
  \/ Completion(Actors, {1})
  \/ Reads(Actors, {NoParam, DayParam(0)})

Spec == Init /\ [][Next]_vars

(***************************************************************************)
(* SpecArchive: concurrent POST /complete requests among the requests that *)
(* change the board, all within one tick of the database clock.            *)
(***************************************************************************)
ArchiveTasks == 1   \* tasks ever created in SpecArchive

InitArchive == StartBoard(FALSE, Limit(MaxStories, ArchiveTasks, MaxArchived))

NextArchive ==
  \/ Requests({NoUser}, {"ann"}, {"secret1"},
              {StoryBody("A", "d", JsNumber(3))},
              {"ready"}, {"done"}, {"t"}, {"true", "false"})
  \/ Completion({NoUser}, Calls)

SpecArchive == InitArchive /\ [][NextArchive]_vars

(***************************************************************************)
(* SpecSnapshot: one POST /complete request at a time among the requests   *)
(* that change the board, over every status, two story bodies and two      *)
(* owner names, all within one tick of the database clock.                 *)
(***************************************************************************)
SnapshotStories == 1    \* stories ever created in SpecSnapshot
SnapshotArchived == 1   \* archive rows ever created in SpecSnapshot

InitSnapshot == StartBoard(FALSE, Limit(SnapshotStories, MaxTasks, SnapshotArchived))

NextSnapshot ==
  \/ Requests({NoUser}, Usernames, {"secret1"},
              {StoryBody("A", "d", JsNumber(3)), StoryBody("B", "e", JsNumber(0))},
              Statuses, Statuses, {"t"}, {"true", "false"})
  \/ Completion({NoUser}, {1})

SpecSnapshot == InitSnapshot /\ [][NextSnapshot]_vars

(***************************************************************************)
(* SpecEstimate: stories created with every kind of estimate, changed,     *)
(* given tasks and archived.                                               *)
(***************************************************************************)
EstimateStories == 2    \* stories ever created in SpecEstimate
EstimateTasks == 1      \* tasks ever created in SpecEstimate
EstimateArchived == 1   \* archive rows ever created in SpecEstimate

InitEstimate ==
  StartBoard(FALSE, Limit(EstimateStories, EstimateTasks, EstimateArchived))

NextEstimate ==
  \/ Requests({NoUser}, {"ann"}, {"secret1"},
              {StoryBody("A", "d", e) : e \in EstimateInputs}
                \cup {StoryBody("B", "e", JsNumber(0))},
              {"backlog"}, {"done"}, {"t"}, {"true"})
  \/ Completion({NoUser}, {1})

SpecEstimate == InitEstimate /\ [][NextEstimate]_vars

(***************************************************************************)
(* SpecEdit: two stories and their tasks created, changed, removed and     *)
(* listed over two ticks of the database clock by a signed-in user; every  *)
(* response is recorded.                                                   *)
(***************************************************************************)
EditStories == 2   \* stories ever created in SpecEdit
EditTasks == 2     \* tasks ever created in SpecEdit

SignedIn == [id |-> 1, role |-> NoRole]

InitEdit == StartBoard(TRUE, Limit(EditStories, EditTasks, 0))

NextEdit ==
  \/ Requests({SignedIn}, {"ann"}, {"secret1"},
              {StoryBody("A", "d", JsNumber(3))},
              {"done", "bogus"}, Statuses, {"t"}, {"true", "false"})
  \/ GetStories /\ UNCHANGED policy
  \/ Tick

SpecEdit == InitEdit /\ [][NextEdit]_vars

(***************************************************************************)
(* SpecAnalytics: GET /api/analytics/archive, a function of the archive,   *)
(* the clock, the server's time zone and the two parameters, over archives *)
(* of up to two rows as POST /complete writes them (of either story, with  *)
(* any owner, estimate, task list and completion time up to now), in every *)
(* zone of ZoneOffsets and for every pair of parameters.                   *)
(***************************************************************************)
AnalyticsNow == 7            \* the clock SpecAnalytics starts at: the last tick of day 1
AnalyticsLast == 8           \* the last value of the clock of SpecAnalytics: day 2
MaxZone == 1                 \* zones from MaxZone behind UTC to MaxZone ahead
ZoneOffsets == (0 - MaxZone)..MaxZone

CompletionTimes == {t \in {0, 3, 4} : t <= AnalyticsNow}
DateParams == {NoParam, BadParam, DayParam(1), DayParam(2)}

SnapshotTask(id, done) == [id |-> id, title |-> "t", done |-> done, createdAt |-> 0]
SnapshotLists == {<<>>, <<SnapshotTask(1, TRUE), SnapshotTask(2, FALSE)>>}
Owners == { [id |-> 1, name |-> "ann"], [id |-> 2, name |-> "bob"],
            [id |-> NullId, name |-> NullStr] }

\* The archive rows of id as POST /complete writes them.
CompletedRows(id) ==
  { [ ArchivedRow(id,
        [ id |-> id, title |-> "A", description |-> "d", estimate |-> e,
          status |-> "done", owner |-> o.name, ownerId |-> o.id,
          createdAt |-> 0, tasks |-> l ])
      EXCEPT !.completed_at = t ]
    : e \in {1, 3}, o \in Owners, l \in SnapshotLists, t \in CompletionTimes }

ArchiveContents ==
  {{}} \cup {{a} : a \in CompletedRows(1) \cup CompletedRows(2)}
       \cup {{a, b} : a \in CompletedRows(1), b \in CompletedRows(2)}

\* The state of a server at time `clock` whose stories are all archived.
ArchiveBoard(clock) ==
  /\ now = clock
  /\ users = {} /\ stories = {} /\ tasks = {}
  /\ archived \in ArchiveContents
  /\ nextId = [users |-> 3, stories |-> 3, tasks |-> 3, archived |-> 3]
  /\ call = [p \in Calls |-> IdleCall]
  /\ signup = [r \in Signups |-> IdleSignup]
  /\ query = [q \in Queries |-> IdleQuery]
  /\ reply = NoReply
  /\ hist = [created |-> [id \in StoryIds |-> 0], ok |-> [id \in StoryIds |-> 0]]
  /\ policy = NoPolicy

InitAnalytics ==
  /\ ArchiveBoard(AnalyticsNow)
  /\ tz \in ZoneOffsets
  /\ recording = TRUE
  /\ limit = Limit(0, 0, 0)

NextAnalytics ==
  \/ TickTo(AnalyticsLast)
  \/ GetAnalyticsArchiveNow(1) /\ UNCHANGED policy
  \/ \E from \in DateParams, to \in DateParams :
       GetAnalyticsArchive(1, NoUser, from, to) /\ UNCHANGED policy
  \/ \E id \in ArchiveIds : DeleteArchive(id) /\ UNCHANGED policy

SpecAnalytics == InitAnalytics /\ [][NextAnalytics]_vars

\* The archives of SpecWindow: empty, or one row.
WindowContents == {{}} \cup {{a} : a \in CompletedRows(1)}

\* SpecAnalytics over the archives of at most one row.
InitWindow ==
  /\ InitAnalytics
  /\ archived \in WindowContents

SpecWindow == InitWindow /\ [][NextAnalytics]_vars

(***************************************************************************)
(* POST /api/auth/login, and the client (App.vue): currentUser is          *)
(* policy.user, stories.value is policy.stories.  Every function of the    *)
(* component that sends a request is an action up to its `await`; the      *)
(* Serve actions are the server handling the request, query by query, and  *)
(* Resume is the function going on after the await.  The functions are     *)
(* guarded as they guard themselves (the template's v-if around their      *)
(* buttons is not part of them).                                           *)
(***************************************************************************)
\* A variant of LoginBody: the response reports a privileged role.
LoginBodyWithRole(user, username) ==
  [id |-> user.id, username |-> username, role |-> "manager"]

\* res.json({ id: user.id, username })
LoginBody(user, username) == [id |-> user.id, username |-> username]

\* bcrypt.compare(password, hash)
bcryptCompare(password, hash) == hash = bcryptHash(password)

\* The responses POST /api/auth/login gives without comparing a password: to
\* a request without username or password, when its SELECT is rejected (the
\* catch), and when the SELECT finds no row.
AuthLoginSelect(username, password) ==
  IF username = NullStr \/ password = NullStr
  THEN {Reply("login", 400, Message("username and password are required"))}
  ELSE {Reply("login", 500, InternalError)} \cup
       IF ~\E u \in users : u.username = username
       THEN {Reply("login", 401, Message("invalid credentials"))}
       ELSE {}

\* The responses bcrypt.compare leads to: users[0] is any of the rows the
\* SELECT finds (it has no ORDER BY).
AuthLoginCompare(username, password) ==
  IF username = NullStr \/ password = NullStr
  THEN {}
  ELSE { IF ~bcryptCompare(password, user.password_hash)
         THEN Reply("login", 401, Message("invalid credentials"))
         ELSE Reply("login", 200, LoginBody(user, username))
         : user \in {u \in users : u.username = username} }

\* The body of the register request: { username, password, role }
RegisterPayload(username, password, role) ==
  [username |-> username, password |-> password, role |-> role]

\* currentUser.value = user, as the capability checks read it: the id and
\* the role, if the object has one
SessionOf(user) ==
  [id |-> user.id, role |-> IF "role" \in DOMAIN user THEN user.role ELSE NoRole]

\* Thread k is the first one that is free.
Free(k) ==
  /\ policy.threads[k].pc = "idle"
  /\ \A j \in 1..(k - 1) : policy.threads[j].pc # "idle"

\* Thread k of client c awaits `request`; `after` is what the caller of
\* loadStories() does when loadStories() has returned.
Await(c, k, request, after) ==
  [c EXCEPT !.threads[k] =
     [pc |-> "sent", request |-> request, response |-> NoReply, after |-> after]]

\* The function of thread k of client c returns.
Return(c, k) == [c EXCEPT !.threads[k] = IdleThread]

\* loadStories() up to `await fetchStories()`.
loadStories(c, k, after) == Await(c, k, [api |-> "fetchStories"], after)

\* from > to, of two dates as strings 'YYYY-MM-DD'
Later(from, to) == from.day > to.day

\* loadArchiveAnalytics() up to `await fetchArchiveAnalytics(...)`: nothing
\* is sent while a filter is empty, and filters in the wrong order are
\* swapped first.
loadArchiveAnalytics(c, k) ==
  IF c.archiveFilters.from = NoParam \/ c.archiveFilters.to = NoParam
  THEN Return(c, k)
  ELSE LET filters == IF Later(c.archiveFilters.from, c.archiveFilters.to)
                      THEN [from |-> c.archiveFilters.to, to |-> c.archiveFilters.from]
                      ELSE c.archiveFilters
       IN Await([c EXCEPT !.archiveFilters = filters], k,
                [ api |-> "fetchArchiveAnalytics", from |-> filters.from,
                  to |-> filters.to, userId |-> c.user.id, slot |-> NullId ],
                "return")

\* The frame of a step of the client alone.
ClientOnly == UNCHANGED <<db, now, env, query, call, signup, reply, hist>>

\* onMounted: loadStories() and loadArchiveAnalytics() send their requests,
\* whoever is or is not logged in.
onMounted ==
  /\ ~policy.mounted
  /\ policy' = loadArchiveAnalytics(
                 loadStories([policy EXCEPT !.mounted = TRUE], 1, "return"),
                 MaxThreads)
  /\ ClientOnly

\* handleRegister up to `await registerUser(...)`, over the fields of
\* registerForm.
handleRegister(k, username, password, role) ==
  /\ policy.mounted
  /\ Free(k)
  /\ IF username = NullStr \/ password = NullStr
     THEN UNCHANGED vars
     ELSE /\ policy' = Await(policy, k,
               [ api |-> "registerUser",
                 payload |-> RegisterPayload(username, password, role),
                 slot |-> NullId ],
               "return")
          /\ ClientOnly

\* handleLogin up to `await loginUser(...)`, over the fields of loginForm.
handleLogin(k, username, password) ==
  /\ policy.mounted
  /\ Free(k)
  /\ IF username = NullStr \/ password = NullStr
     THEN UNCHANGED vars
     ELSE /\ policy' = Await(policy, k,
               [api |-> "loginUser", username |-> username, password |-> password],
               "return")
          /\ ClientOnly

logout ==
  /\ policy.mounted
  /\ policy' = [policy EXCEPT !.user = NoUser]
  /\ ClientOnly

\* Number.isFinite(estimate) && estimate > 0 ? estimate : 1, of Number(storyForm.estimate)
FormEstimate(estimate) ==
  IF Number(estimate).finite /\ Number(estimate).n > 0 THEN Number(estimate).n ELSE 1

\* addStory up to `await createStory(...)`, over the fields of storyForm.
addStory(k, title, description, estimate, status) ==
  /\ policy.mounted
  /\ Free(k)
  /\ IF policy.user = NoUser \/ title = NullStr
     THEN UNCHANGED vars
     ELSE /\ policy' = Await(policy, k,
               [ api |-> "createStory",
                 input |-> StoryBody(title, description, JsNumber(FormEstimate(estimate))),
                 status |-> status, ownerId |-> policy.user.id ],
               "return")
          /\ ClientOnly

\* updateStoryStatus up to `await updateStoryStatusApi(...)`.
updateStoryStatus(k, storyId, status) ==
  /\ policy.mounted
  /\ Free(k)
  /\ IF policy.user = NoUser
     THEN UNCHANGED vars
     ELSE /\ policy' = Await(policy, k,
               [ api |-> "updateStoryStatus", id |-> storyId, status |-> status,
                 userId |-> policy.user.id ],
               "return")
          /\ ClientOnly

\* The drafts of the estimate field.
EstimateDrafts == {JsNumber(0), JsNumber(1), JsNumber(5), JsText}

\* saveEstimate up to `await updateStoryEstimateApi(...)`, over the draft of
\* the estimate: the request is PATCH /api/stories/:id with the body
\* {estimate, userId}, which has no status.
saveEstimate(k, storyId, draft) ==
  /\ policy.mounted
  /\ Free(k)
  /\ IF policy.user = NoUser
     THEN UNCHANGED vars
     ELSE IF ~Number(draft).finite \/ Number(draft).n < 1
     THEN UNCHANGED vars
     ELSE /\ policy' = Await(policy, k,
               [ api |-> "updateStoryEstimate", id |-> storyId,
                 estimate |-> Number(draft).n, userId |-> policy.user.id ],
               "return")
          /\ ClientOnly

\* addTaskToStory up to `await addTaskApi(...)`, over the draft of the title.
addTaskToStory(k, storyId, draft) ==
  /\ policy.mounted
  /\ Free(k)
  /\ IF draft = NullStr
     THEN UNCHANGED vars
     ELSE /\ policy' = Await(policy, k,
               [api |-> "addTask", storyId |-> storyId, title |-> draft], "return")
          /\ ClientOnly

\* stories.value.find(...)?.tasks.find(...): the tasks of the id in the
\* story of the id, as the client last loaded them.
LoadedTasks(storyId, taskId) ==
  { t \in UNION { Range(policy.stories[i].tasks) :
                    i \in {j \in DOMAIN policy.stories : policy.stories[j].id = storyId} } :
      t.id = taskId }

\* toggleTask up to `await updateTaskState(...)`: the flag sent is the
\* opposite of the one the client last loaded.
toggleTask(k, storyId, taskId) ==
  /\ policy.mounted
  /\ Free(k)
  /\ IF LoadedTasks(storyId, taskId) = {}
     THEN UNCHANGED vars
     ELSE /\ \E task \in LoadedTasks(storyId, taskId) :
               policy' = Await(policy, k,
                 [ api |-> "updateTaskState", storyId |-> storyId, taskId |-> taskId,
                   done |-> IF task.done THEN "false" ELSE "true" ],
                 "return")
          /\ ClientOnly

\* removeTask up to `await deleteTaskApi(...)`.
removeTask(k, storyId, taskId) ==
  /\ policy.mounted
  /\ Free(k)
  /\ policy' = Await(policy, k,
       [api |-> "deleteTask", storyId |-> storyId, taskId |-> taskId], "return")
  /\ ClientOnly

\* removeStory up to `await deleteStoryApi(...)`.
removeStory(k, storyId) ==
  /\ policy.mounted
  /\ Free(k)
  /\ IF policy.user = NoUser
     THEN UNCHANGED vars
     ELSE /\ policy' = Await(policy, k,
               [api |-> "deleteStory", id |-> storyId, userId |-> policy.user.id],
               "return")
          /\ ClientOnly

\* archiveStory up to `await completeStoryApi(...)`.
archiveStory(k, storyId) ==
  /\ policy.mounted
  /\ Free(k)
  /\ IF policy.user = NoUser
     THEN UNCHANGED vars
     ELSE /\ policy' = Await(policy, k,
               [ api |-> "completeStory", id |-> storyId, userId |-> policy.user.id,
                 slot |-> NullId ],
               "return")
          /\ ClientOnly

\* removeArchivedStory up to `await deleteArchivedStory(...)`.
removeArchivedStory(k, archivedId) ==
  /\ policy.mounted
  /\ Free(k)
  /\ policy' = Await(policy, k, [api |-> "deleteArchivedStory", id |-> archivedId],
                     "return")
  /\ ClientOnly

\* The button of the archive page: loadArchiveAnalytics().
refreshArchive(k) ==
  /\ policy.mounted
  /\ Free(k)
  /\ policy' = loadArchiveAnalytics(policy, k)
  /\ ClientOnly

\* A date input of the archive page is changed (v-model), and the watcher
\* of the filters calls loadArchiveAnalytics() before anything else runs;
\* when that call swaps the filters, the watcher calls it once more.
watchArchiveFilters(k, field, value) ==
  LET changed == [policy EXCEPT !.archiveFilters[field] = value]
      called == loadArchiveAnalytics(changed, k)
  IN /\ policy.mounted
     /\ policy.archiveFilters[field] # value
     /\ Free(k)
     /\ IF called.archiveFilters = changed.archiveFilters
        THEN policy' = called
        ELSE \E j \in Threads :
               /\ j # k
               /\ policy.threads[j].pc = "idle"
               /\ policy' = loadArchiveAnalytics(called, j)
     /\ ClientOnly

\* The request of thread k of the client is answered with `response`.
Answered(k, response) ==
  [policy EXCEPT !.threads[k].pc = "answered", !.threads[k].response = response]

\* The handler of the request of thread k goes on in slot n of the server.
Serving(k, n) ==
  [policy EXCEPT !.threads[k].pc = "serving", !.threads[k].request.slot = n]

\* The thread whose request slot n of the handlers of `api` serves gets the
\* response.
AnsweredFrom(api, n, response) ==
  [policy EXCEPT !.threads =
     [k \in Threads |->
        IF /\ @[k].pc = "serving"
           /\ @[k].request.api = api
           /\ @[k].request.slot = n
        THEN [@[k] EXCEPT !.pc = "answered", !.response = response]
        ELSE @[k]]]

\* The requests with a handler of one query.
Served ==
  { "fetchStories", "createStory", "updateStoryStatus", "updateStoryEstimate",
    "addTask", "updateTaskState", "deleteTask", "deleteStory", "deleteArchivedStory" }

\* The server handles the request of thread k and answers it (responses are
\* recorded in this run: the response is the one reply takes).
Serve(k) ==
  LET r == policy.threads[k].request IN
  /\ policy.threads[k].pc = "sent"
  /\ r.api \in Served
  /\ recording
  /\ CASE r.api = "fetchStories" -> GetStories
       [] r.api = "createStory" -> PostStories(r.input, r.status, r.ownerId)
       [] r.api = "updateStoryStatus" ->
            PatchStory(SessionOf([id |-> r.userId]), r.id, r.status)
       [] r.api = "updateStoryEstimate" ->
            PatchStory(SessionOf([id |-> r.userId]), r.id, NullStr)
       [] r.api = "addTask" -> PostTask(r.storyId, r.title)
       [] r.api = "updateTaskState" -> PatchTask(r.storyId, r.taskId, r.done)
       [] r.api = "deleteTask" -> DeleteTask(r.storyId, r.taskId)
       [] r.api = "deleteStory" -> DeleteStory(SessionOf([id |-> r.userId]), r.id)
       [] r.api = "deleteArchivedStory" -> DeleteArchive(r.id)
  /\ policy' = Answered(k, reply')

\* The query of GET /api/stories of thread k is rejected: the catch answers
\* 500.
ServeFails(k) ==
  /\ policy.threads[k].pc = "sent"
  /\ policy.threads[k].request.api = "fetchStories"
  /\ recording
  /\ Respond("stories:list", 500, InternalError)
  /\ UNCHANGED db
  /\ policy' = Answered(k, reply')

\* The slot the server takes for a request: the first that is idle.
FirstIdle(slots, n) ==
  /\ slots[n].pc = "idle"
  /\ \A m \in 1..(n - 1) : slots[m].pc # "idle"

\* POST /api/auth/register of thread k up to its SELECT, in slot r of the
\* server: answered there, or going on to its INSERT.
ServeRegister(k, r) ==
  LET request == policy.threads[k].request IN
  /\ policy.threads[k].pc = "sent"
  /\ request.api = "registerUser"
  /\ recording
  /\ FirstIdle(signup, r)
  /\ \/ RegisterSelect(r, request.payload.username, request.payload.password)
     \/ RegisterSelectFails(r, request.payload.username, request.payload.password)
  /\ policy' = IF signup'[r].pc = "selected" THEN Serving(k, r)
               ELSE Answered(k, reply')

\* The INSERT of the register request in slot r, and its response.
ServeRegisterInsert(r) ==
  /\ recording
  /\ RegisterInsert(r) \/ RegisterInsertFails(r)
  /\ policy' = AnsweredFrom("registerUser", r, reply')

\* POST /api/auth/login of thread k up to its SELECT: answered there, or
\* going on to bcrypt.compare with the row it took.
ServeLogin(k) ==
  LET request == policy.threads[k].request IN
  /\ policy.threads[k].pc = "sent"
  /\ request.api = "loginUser"
  /\ \/ \E response \in AuthLoginSelect(request.username, request.password) :
          /\ policy' = Answered(k, response)
          /\ reply' = Kept(response)
     \/ \E response \in AuthLoginCompare(request.username, request.password) :
          /\ policy' = [policy EXCEPT !.threads[k].pc = "selected",
                                      !.threads[k].response = response]
          /\ UNCHANGED reply
  /\ UNCHANGED <<db, now, env, query, call, signup, hist>>

\* The server answers the login request of thread k after bcrypt.compare.
AuthLoginAnswer(k) ==
  /\ policy.threads[k].pc = "selected"
  /\ policy' = [policy EXCEPT !.threads[k].pc = "answered"]
  /\ reply' = Kept(policy.threads[k].response)
  /\ UNCHANGED <<db, now, env, query, call, signup, hist>>

\* POST /complete of thread k starts in slot p of the server.
ServeComplete(k, p) ==
  LET r == policy.threads[k].request IN
  /\ policy.threads[k].pc = "sent"
  /\ r.api = "completeStory"
  /\ FirstIdle(call, p)
  /\ CompleteSelect(p, SessionOf([id |-> r.userId]), r.id)
  /\ policy' = Serving(k, p)

\* GET /api/analytics/archive of thread k reads the clock, in slot q of the
\* server.
ServeAnalytics(k, q) ==
  /\ policy.threads[k].pc = "sent"
  /\ policy.threads[k].request.api = "fetchArchiveAnalytics"
  /\ FirstIdle(query, q)
  /\ GetAnalyticsArchiveNow(q)
  /\ policy' = Serving(k, q)

\* The query of GET /api/analytics/archive of thread k runs, or is rejected,
\* and the request is answered.
ServeAnalyticsQuery(k) ==
  LET r == policy.threads[k].request IN
  /\ policy.threads[k].pc = "serving"
  /\ r.api = "fetchArchiveAnalytics"
  /\ recording
  /\ \/ GetAnalyticsArchive(r.slot, SessionOf([id |-> r.userId]), r.from, r.to)
     \/ GetAnalyticsArchiveFails(r.slot)
  /\ policy' = Answered(k, reply')

\* The response thread t has got, if it has one.
HasResponse(t) ==
  \/ t.pc = "answered"
  \/ t.pc = "serving" /\ t.request.api = "completeStory" /\ call[t.request.slot].pc = "done"

Response(t) == IF t.pc = "serving" THEN call[t.request.slot].resp ELSE t.response

\* response.ok
Ok(response) == response.status \in 200..299

\* The function of thread k goes on after its await, up to its next await
\* or its end.  request() throws unless the response is ok, and the catch
\* of the function sets a message only, as handleRegister does with either
\* response.  handleLogin stores the response as currentUser and calls
\* loadStories(); loadStories() stores the list (data?.stories ?? []) and
\* catches its own error, so archiveStory goes on to loadArchiveAnalytics()
\* either way; the functions that change the board call loadStories(),
\* removeArchivedStory loadArchiveAnalytics().
Resume(k) ==
  LET t == policy.threads[k]
      response == Response(t)
      api == t.request.api
  IN /\ HasResponse(t)
     /\ policy' =
          CASE api = "registerUser" -> Return(policy, k)
            [] api = "loginUser" ->
                 IF Ok(response)
                 THEN loadStories([policy EXCEPT !.user = SessionOf(response.body)],
                                  k, "return")
                 ELSE Return(policy, k)
            [] api = "fetchStories" ->
                 LET c == IF Ok(response)
                          THEN [policy EXCEPT !.stories = response.body.stories]
                          ELSE policy
                 IN IF t.after = "loadArchiveAnalytics"
                    THEN loadArchiveAnalytics(c, k)
                    ELSE Return(c, k)
            [] api = "fetchArchiveAnalytics" -> Return(policy, k)
            [] api = "deleteArchivedStory" ->
                 IF Ok(response) THEN loadArchiveAnalytics(policy, k)
                 ELSE Return(policy, k)
            [] api = "completeStory" ->
                 IF Ok(response) THEN loadStories(policy, k, "loadArchiveAnalytics")
                 ELSE Return(policy, k)
            [] OTHER ->
                 IF Ok(response) THEN loadStories(policy, k, "return")
                 ELSE Return(policy, k)
     /\ call' = IF t.pc = "serving" THEN [call EXCEPT ![t.request.slot] = IdleCall]
                ELSE call
     /\ UNCHANGED <<db, now, env, query, signup, reply, hist>>

SessionAccounts == 1   \* users ever registered in a session
SessionStories == 1    \* stories ever created in a session
SessionTasks == 1      \* tasks ever created in a session
SessionArchived == 1   \* archive rows ever created in a session

InitSession ==
  /\ InitBoard
  /\ Env(0, TRUE, [Limit(SessionStories, SessionTasks, SessionArchived)
                     EXCEPT !.users = SessionAccounts])
  /\ policy = NoPolicy

SessionStoryIds == 1..SessionStories
SessionTaskIds == 1..SessionTasks

\* The steps of every session: the component is mounted, an account is
\* registered, logged in and out, a story is created, and the server and
\* the functions that await it go on.
NextAccount ==
  \/ onMounted
  \/ \E k \in Threads, username \in {"ann", NullStr}, role \in Roles :
       handleRegister(k, username, "secret1", role)
  \/ \E k \in Threads, username \in {"ann", NullStr},
        password \in {"secret1", "secret2"} :
       handleLogin(k, username, password)
  \/ logout
  \/ \E k \in Threads, title \in {"A", NullStr}, description \in {"d", NullStr} :
       addStory(k, title, description, JsNumber(3), "backlog")
  \/ \E k \in Threads : Serve(k)
  \/ \E k \in Threads : ServeFails(k)
  \/ \E k \in Threads, r \in Signups : ServeRegister(k, r)
  \/ \E r \in Signups : ServeRegisterInsert(r)
  \/ \E k \in Threads : ServeLogin(k)
  \/ \E k \in Threads : AuthLoginAnswer(k)
  \/ \E k \in Threads, q \in Queries : ServeAnalytics(k, q)
  \/ \E k \in Threads : ServeAnalyticsQuery(k)
  \/ \E k \in Threads : Resume(k)

\* A session that removes and archives stories and reads the archive page.
NextSession ==
  \/ NextAccount
  \/ \E k \in Threads, id \in SessionStoryIds : removeStory(k, id)
  \/ \E k \in Threads, id \in SessionStoryIds : archiveStory(k, id)
  \/ \E k \in Threads, id \in 1..SessionArchived : removeArchivedStory(k, id)
  \/ \E k \in Threads : refreshArchive(k)
  \/ \E k \in Threads : watchArchiveFilters(k, "from", DayParam(1))
  \/ \E k \in Threads, p \in Calls : ServeComplete(k, p)
  \/ \E p \in Calls : CompleteInsert(p) /\ UNCHANGED policy
  \/ \E p \in Calls : CompleteInsertFails(p) /\ UNCHANGED policy
  \/ \E p \in Calls : CompleteDelete(p) /\ UNCHANGED policy
  \/ \E p \in Calls : CompleteDeleteFails(p) /\ UNCHANGED policy

\* A session that works on the stories and tasks of the board.
NextSessionBoard ==
  \/ NextAccount
  \/ \E k \in Threads, id \in SessionStoryIds : updateStoryStatus(k, id, "done")
  \/ \E k \in Threads, id \in SessionStoryIds, draft \in EstimateDrafts :
       saveEstimate(k, id, draft)
  \/ \E k \in Threads, id \in SessionStoryIds, draft \in TaskTitles :
       addTaskToStory(k, id, draft)
  \/ \E k \in Threads, id \in SessionStoryIds, taskId \in SessionTaskIds :
       toggleTask(k, id, taskId)
  \/ \E k \in Threads, id \in SessionStoryIds, taskId \in SessionTaskIds :
       removeTask(k, id, taskId)
  \/ \E k \in Threads, id \in SessionStoryIds : removeStory(k, id)

SpecSession == InitSession /\ [][NextSession]_vars
SpecSessionBoard == InitSession /\ [][NextSessionBoard]_vars

(***************************************************************************)
(* The analytics over an archive whose tasks_json was not written by       *)
(* complete: NULL, text that is no JSON, JSON text of an object, a string, *)
(* a number or null, and (a JSON column) values the driver decodes.        *)
(***************************************************************************)
StoredSnapshots ==
  { [json |-> "array", items |-> <<SnapshotTask(1, TRUE), SnapshotTask(2, FALSE)>>],
    [json |-> "sqlnull"], [json |-> "malformed"], [json |-> "null"],
    [json |-> "object"], [json |-> "string", length |-> 3], [json |-> "number"],
    [json |-> "decoded object"], [json |-> "decoded string"],
    [json |-> "decoded number", n |-> 0], [json |-> "decoded number", n |-> 5] }

StoredRows(id) ==
  { [ ArchivedRow(id, [id |-> id, title |-> "A", description |-> "d", estimate |-> 3,
                       status |-> "done", owner |-> "ann", ownerId |-> 1,
                       createdAt |-> 0, tasks |-> <<>>])
      EXCEPT !.tasks_json = j, !.completed_at = t ] :
    j \in StoredSnapshots, t \in {0, DAY_MS} }

StoredContents ==
  {{}} \cup {{a} : a \in StoredRows(1) \cup StoredRows(2)}
       \cup {{a, b} : a \in StoredRows(1), b \in StoredRows(2)}

InitStored ==
  /\ now = AnalyticsNow
  /\ users = {} /\ stories = {} /\ tasks = {}
  /\ archived \in StoredContents
  /\ nextId = [users |-> 3, stories |-> 3, tasks |-> 3, archived |-> 3]
  /\ call = [p \in Calls |-> IdleCall]
  /\ signup = [r \in Signups |-> IdleSignup]
  /\ query = [q \in Queries |-> IdleQuery]
  /\ reply = NoReply
  /\ hist = [created |-> [id \in StoryIds |-> 0], ok |-> [id \in StoryIds |-> 0]]
  /\ policy = NoPolicy
  /\ tz = 0 /\ recording = TRUE /\ limit = Limit(0, 0, 0)

NextStored ==
  \/ GetAnalyticsArchiveNow(1) /\ UNCHANGED policy
  \/ \E from \in {NoParam, DayParam(1)} :
       GetAnalyticsArchive(1, NoUser, from, NoParam) /\ UNCHANGED policy
  \/ \E id \in ArchiveIds : DeleteArchive(id) /\ UNCHANGED policy

SpecStored == InitStored /\ [][NextStored]_vars

(***************************************************************************)
(* SpecPolicy: the capability checks over the matrix of sessions (none, or *)
(* a user id with or without a role) and story owners.                     *)
(***************************************************************************)
PolicyUserIds == 1..MaxPolicyUsers

InitPolicy ==
  /\ InitBoard /\ Env(0, FALSE, Limit(0, 0, 0))
  /\ policy \in [ user : SessionUsers(PolicyUserIds),
                  story : [ownerId : PolicyUserIds],
                  evaluated : {FALSE}, can : {NoAnswer}, mounted : {FALSE},
                  stories : {<<>>}, archiveFilters : {NoPolicy.archiveFilters},
                  threads : {NoPolicy.threads} ]

EvaluatePolicy ==
  /\ ~policy.evaluated
  /\ policy' = [ policy EXCEPT
       !.evaluated = TRUE,
       !.can = [ edit |-> canEditStory(policy.user, policy.story),
                 delete |-> canDeleteStory(policy.user),
                 archive |-> canArchiveStory(policy.user),
                 analytics |-> canViewAnalytics(policy.user) ] ]
  /\ UNCHANGED <<db, now, env, query, call, signup, reply, hist>>

SpecPolicy == InitPolicy /\ [][EvaluatePolicy]_vars

(***************************************************************************)
(*                              Properties                                 *)
(***************************************************************************)
Live(id) == \E s \in stories : s.id = id
ArchivedOf(id) == {a \in archived : a.original_story_id = id}
InFlight(p) == call[p].pc \in {"selected", "inserted"}
Quiescent == \A p \in Calls : ~InFlight(p)
Ended(p, status) == call[p].pc = "done" /\ call[p].resp.status = status

\* The story object the client holds for a row of stories.
ClientStory(s) == StoryOfRow(JoinRow(s, NullTask))

\* C1: archive is all-or-nothing: once no archive call is in flight, no story
\* is both live on the board and present in the archive.
C1_AllOrNothing ==
  Quiescent => \A s \in stories : ArchivedOf(s.id) = {}

\* C2: once no archive call is in flight, a story with a successful archive
\* call is in no listing, and the archive rows created for a story are as
\* many as its successful archive calls.
C2_OneRowPerSuccess ==
  Quiescent =>
    \A id \in StoryIds :
      /\ hist.ok[id] > 0 =>
           \A rows \in Orderings(JoinRows(stories), ListOrder) :
             \A i \in DOMAIN mapStories(rows) : mapStories(rows)[i].id # id
      /\ hist.created[id] = hist.ok[id]

\* C3: a story's status changes only at the request of an actor who can edit
\* it, a story is removed only at the request of one who can delete, and an
\* archive request gets past its lookup only for one who can archive.
C3_Gated ==
  [][ \A actor \in Actors, id \in StoryIds :
        /\ \A status \in StatusInputs :
             PatchStory(actor, id, status) /\ stories' # stories =>
               \E s \in stories : s.id = id /\ canEditStory(actor, ClientStory(s))
        /\ DeleteStory(actor, id) /\ stories' # stories => canDeleteStory(actor)
        /\ \A p \in Calls :
             CompleteSelect(p, actor, id) /\ call'[p].pc = "selected" =>
               canArchiveStory(actor) ]_vars

\* C4: the analytics of a non-empty archive are returned only to an actor who
\* can view analytics.
C4_AnalyticsGated ==
  [][ \A actor \in Actors, from, to \in {NoParam, DayParam(0)} :
        ( /\ GetAnalyticsArchive(1, actor, from, to)
          /\ reply'.op = "analytics:archive"
          /\ reply'.status = 200
          /\ reply'.body.stories # <<>> ) => canViewAnalytics(actor) ]_vars

\* C5: the capability matrix: editing is allowed to a present user who is
\* manager, admin or the story's owner; deleting, archiving and analytics to
\* a present manager or admin; an absent user is allowed nothing.
C5_CapabilityMatrix ==
  policy.evaluated =>
    LET user == policy.user
        present == user # NoUser
        privileged == present /\ user.role \in {"manager", "admin"}
    IN /\ policy.can.edit = (present /\ (privileged \/ user.id = policy.story.ownerId))
       /\ policy.can.delete = privileged
       /\ policy.can.archive = privileged
       /\ policy.can.analytics = privileged

C5_Witness ==
  /\ policy.evaluated
  /\ policy.user = [id |-> 2, role |-> "developer"]
  /\ policy.story.ownerId = 2
  /\ policy.can = [edit |-> TRUE, delete |-> FALSE, archive |-> FALSE, analytics |-> FALSE]

\* C6: an archive row stays exactly as it was created through every step,
\* and leaves the archive only in a DELETE /api/archive/:id of its own id.
C6_ArchiveImmutable ==
  [][ \A a \in archived :
        \/ a \in archived'
        \/ \E id \in ArchiveIds : id = a.id /\ DeleteArchive(id) ]_vars

\* An archive row with a task in its snapshot outlives the story, its tasks,
\* a later story and a second archive row.
C6_Witness ==
  \E a \in archived :
    /\ a.tasks_json.items # <<>>
    /\ ~Live(a.original_story_id)
    /\ tasks = {}
    /\ \E s \in stories : s.id > a.original_story_id
    /\ \E b \in archived : b.id > a.id

\* C7: the row an archive call inserts has the call's story id, status "done",
\* the task list the call loaded, and the title, description, estimate, owner
\* id and owner's username of the live story; the task list a call loads is
\* the story's tasks with their done flags.
C7_SnapshotCopies ==
  [][ \A p \in Calls :
        /\ CompleteInsert(p) =>
             \A a \in archived' \ archived :
               /\ a.original_story_id = call[p].id
               /\ a.status = "done"
               /\ a.tasks_json = [json |-> "array", items |-> call[p].story.tasks]
               /\ \A s \in stories :
                    s.id = call[p].id =>
                      /\ a.title = s.title
                      /\ a.description = s.description
                      /\ a.estimate = s.estimate
                      /\ a.owner_id = s.owner_id
                      /\ \E u \in users : u.id = s.owner_id /\ a.owner_name = u.username
        /\ \A id \in StoryIds :
             CompleteSelect(p, NoUser, id) /\ call'[p].pc = "selected" =>
               LET loaded == call'[p].story.tasks
                   mine == {t \in tasks : t.story_id = id}
               IN /\ Len(loaded) = Cardinality(mine)
                  /\ \A t \in mine :
                       \E i \in DOMAIN loaded :
                         /\ loaded[i].id = t.id
                         /\ loaded[i].title = t.title
                         /\ loaded[i].done = (t.done = 1) ]_vars

\* A story that is not done, with one task done and one not, has been copied
\* into the archive as "done" with both tasks.
C7_Witness ==
  \E p \in Calls, a \in archived :
    /\ call[p].pc = "inserted"
    /\ a.id = call[p].insertId
    /\ call[p].story.status = "in-progress"
    /\ a.status = "done"
    /\ a.title = "B"
    /\ a.owner_name = "bob"
    /\ Len(a.tasks_json.items) = 2
    /\ a.tasks_json.items[1].id = 2
    /\ a.tasks_json.items[1].done
    /\ ~a.tasks_json.items[2].done

\* C8: an archive call whose DELETE failed after its INSERT answers
\* differently from one whose INSERT failed.
C8_PartialFailureDistinct ==
  \A p, q \in Calls :
    ( /\ call[p].pc = "done" /\ call[p].failedAt = "delete"
      /\ call[q].pc = "done" /\ call[q].failedAt = "insert" )
    => /\ call[p].resp.status # 200
       /\ call[p].resp # call[q].resp

\* C9: nothing keeps a second archive call of a story from archiving it again:
\* the INSERT of every call that found the story adds a row of that story to
\* the archive, also when the archive has a row of it already.
C9_EveryInsertAdds ==
  [][ \A p \in Calls :
        CompleteInsert(p) =>
          /\ Cardinality(archived') = Cardinality(archived) + 1
          /\ Cardinality({a \in archived' : a.original_story_id = call[p].id})
               = Cardinality(ArchivedOf(call[p].id)) + 1 ]_vars

\* Two calls for one story have both answered 200 and the archive holds two
\* rows of that story.
C9_Witness ==
  \E p, q \in Calls :
    /\ p # q
    /\ Ended(p, 200) /\ Ended(q, 200)
    /\ call[p].id = call[q].id
    /\ call[p].resp.body.archivedId # call[q].resp.body.archivedId
    /\ Cardinality(ArchivedOf(call[p].id)) = 2
    /\ hist.ok[call[p].id] = 2

\* C10: an archive request for an id that is not a live story ends at its
\* lookup with 404 and leaves stories, tasks and archive as they were.  (A
\* call that is not in flight changes only by taking a new request, whose id
\* it then holds.)
C10_NotFound ==
  [][ \A p \in Calls :
        ( /\ ~InFlight(p)
          /\ call'[p] # call[p]
          /\ ~Live(call'[p].id) ) =>
          /\ call'[p].pc = "done"
          /\ call'[p].resp.status = 404
          /\ call'[p].resp.body = Message("story not found")
          /\ UNCHANGED <<stories, tasks, archived>> ]_vars

\* A second archive request of an archived story has answered 404 while
\* another story is live.
C10_Witness ==
  \E p \in Calls :
    /\ Ended(p, 404)
    /\ hist.ok[call[p].id] = 1
    /\ stories # {}
    /\ Cardinality(archived) = 1

\* normalize(e) of the claim: max(1, e) for a positive number, 1 for any other
\* value; a string of a number is read as that number.
NormalizeOfClaim(e) ==
  IF e.type \in {"number", "string"} /\ e.numeric /\ e.n > 0
  THEN (IF e.n >= 1 THEN e.n ELSE 1)
  ELSE 1

\* C11: every live story and every archive row has estimate >= 1, and the
\* story a create request adds is stored with normalize(e) of the request's
\* estimate e.
C11_EstimateAtLeastOne ==
  [][ /\ \A s \in stories' : s.estimate >= 1
      /\ \A a \in archived' : a.estimate >= 1
      /\ \A e \in EstimateInputs, status \in Statuses, u \in users :
           PostStories(StoryBody("A", "d", e), status, u.id) =>
             \A s \in stories' \ stories : s.estimate = NormalizeOfClaim(e) ]_vars

\* A story created with estimate 0 is live with estimate 1 next to the
\* archive row of an earlier story.
C11_Witness ==
  /\ \E s \in stories : s.title = "B" /\ s.estimate = 1
  /\ \E a \in archived : a.title = "A" /\ a.estimate = 5

\* C12: the status of every live story is one of backlog, ready, in-progress,
\* done.
C12_StatusEnum == \A s \in stories : s.status \in Statuses

\* C13: a status request for a live story with any of the four statuses is
\* answered 200 and leaves the story with that status, every other field of it
\* and every other story, user, task and archive row as they were.
C13_FlatTransitions ==
  [][ \A id \in StoryIds, t \in {"backlog", "ready", "in-progress", "done"} :
        \A s \in stories :
          (s.id = id /\ PatchStory(SignedIn, id, t)) =>
            /\ stories' = (stories \ {s}) \cup {[s EXCEPT !.status = t]}
            /\ reply' = Reply("stories:update", 200, [id |-> id, status |-> t])
            /\ UNCHANGED <<users, tasks, archived>> ]_vars

\* A story created as done has been moved back to backlog, next to another
\* story that is in progress.
C13_Witness ==
  /\ reply = Reply("stories:update", 200, [id |-> 1, status |-> "backlog"])
  /\ \E s \in stories : s.id = 1 /\ s.status = "backlog"
  /\ \E s \in stories : s.id = 2 /\ s.status = "in-progress"

\* C14: saving an estimate of 1 or more for a live story, by a user who can
\* edit it, leaves the story with that estimate: when the request that
\* saveEstimate sent for the user is handled, the story has the estimate.
C14_SetEstimate ==
  [][ \A k \in Threads, id \in StoryIds, n \in {1, 5} :
        \A s \in stories :
          ( /\ s.id = id
            /\ policy.threads[k].pc = "sent"
            /\ policy.threads[k].request.api = "updateStoryEstimate"
            /\ policy.threads[k].request.id = id
            /\ policy.threads[k].request.estimate = n
            /\ canEditStory(SessionOf([id |-> policy.threads[k].request.userId]),
                            ClientStory(s))
            /\ Serve(k) ) =>
            \E s2 \in stories' : s2.id = id /\ s2.estimate = n ]_vars

\* C15: a done request with a boolean sets the done flag of the task with
\* that id in that story and changes nothing else; sending it again changes
\* nothing, and false after true leaves the task not done.
C15_ToggleTask ==
  [][ \A storyId \in StoryIds, taskId \in TaskIds, done \in {"true", "false"} :
        PatchTask(storyId, taskId, done) =>
          LET bit == IF done = "true" THEN 1 ELSE 0
              Hit(t) == t.id = taskId /\ t.story_id = storyId
          IN /\ tasks' = {IF Hit(t) THEN [t EXCEPT !.done = bit] ELSE t : t \in tasks}
             /\ UNCHANGED <<users, stories, archived>>
             /\ UpdateDone(tasks', taskId, storyId, bit) = tasks'
             /\ \A t \in UpdateDone(UpdateDone(tasks, taskId, storyId, 1), taskId, storyId, 0) :
                  Hit(t) => t.done = 0 ]_vars

\* A task has been set to not done while the other task, of the other story,
\* is done.
C15_Witness ==
  /\ reply = Reply("tasks:update", 200, [id |-> 1, done |-> FALSE])
  /\ \E t \in tasks : t.id = 1 /\ t.story_id = 1 /\ t.done = 0
  /\ \E t \in tasks : t.id = 2 /\ t.story_id = 2 /\ t.done = 1

\* C16: a delete request for a task removes the task with that id in that
\* story and nothing else, answering 204; when there is none it answers 404
\* and removes nothing.
C16_RemoveTask ==
  [][ \A storyId \in StoryIds, taskId \in TaskIds :
        DeleteTask(storyId, taskId) =>
          LET match == {t \in tasks : t.id = taskId /\ t.story_id = storyId}
          IN /\ Cardinality(match) <= 1
             /\ tasks' = tasks \ match
             /\ UNCHANGED <<users, stories, archived>>
             /\ reply' = IF match = {}
                         THEN Reply("tasks:delete", 404, Message("task not found"))
                         ELSE Reply("tasks:delete", 204, Message("")) ]_vars

\* A delete request has been answered 404 while both tasks exist, each under
\* its own story: its task id was that of a task of the other story.
C16_Witness ==
  /\ reply = Reply("tasks:delete", 404, Message("task not found"))
  /\ \E t \in tasks : t.id = 1 /\ t.story_id = 1
  /\ \E t \in tasks : t.id = 2 /\ t.story_id = 2

\* C18: the list of stories has every live story once, each with its own tasks
\* and no others, stories by creation time descending and the tasks of a
\* story by creation time ascending.
ListsBoard(list) ==
  /\ Len(list) = Cardinality(stories)
  /\ {list[i].id : i \in DOMAIN list} = {s.id : s \in stories}
  /\ \A i, j \in DOMAIN list : i < j => list[i].createdAt >= list[j].createdAt
  /\ \A i \in DOMAIN list :
       LET own == {t \in tasks : t.story_id = list[i].id}
           got == list[i].tasks
       IN /\ Len(got) = Cardinality(own)
          /\ {got[k].id : k \in DOMAIN got} = {t.id : t \in own}
          /\ \A k, l \in DOMAIN got : k < l => got[k].createdAt <= got[l].createdAt

C18_ListStories == [][GetStories => ListsBoard(reply'.body.stories)]_vars

\* The list has the later story first, without tasks, and then the earlier
\* story with its two tasks, the earlier task first.
C18_Witness ==
  /\ reply.op = "stories:list"
  /\ Len(reply.body.stories) = 2
  /\ reply.body.stories[1].id = 2
  /\ reply.body.stories[1].createdAt = 1
  /\ reply.body.stories[1].tasks = <<>>
  /\ reply.body.stories[2].createdAt = 0
  /\ Len(reply.body.stories[2].tasks) = 2
  /\ reply.body.stories[2].tasks[1].createdAt = 0
  /\ reply.body.stories[2].tasks[2].createdAt = 1

\* C17: every task belongs to exactly one story, and that story is live.
C17_TaskHasLiveStory ==
  \A t \in tasks : Cardinality({s \in stories : s.id = t.story_id}) = 1

\* A story archived with a task in its snapshot is gone with its tasks, and
\* the other story is live.
C17_Witness ==
  /\ \E a \in archived : a.tasks_json.items # <<>> /\ hist.ok[a.original_story_id] = 1
  /\ tasks = {}
  /\ stories # {}

\* C19: a request answered with a validation failure leaves users, stories,
\* tasks and archive as they were: register without username or password or
\* with a short password, create without owner or title, a status outside the
\* enum, a task without title, a done flag that is no boolean.
C19_ValidationFirst ==
  [][ reply'.status \in {400, 401} =>
      /\ \A username \in {"ann", NullStr}, password \in Passwords :
           ( /\ username = NullStr \/ password = NullStr \/ Len(password) < 6
             /\ \E r \in Signups : RegisterSelect(r, username, password) )
             => UNCHANGED db
      /\ \A input \in StoryInputs, ownerId \in {NullId} \cup UserIds :
           ( /\ ownerId = NullId \/ input.title = NullStr
             /\ PostStories(input, "backlog", ownerId) ) => UNCHANGED db
      /\ \A actor \in Actors, id \in StoryIds, status \in StatusInputs \ Statuses :
           PatchStory(actor, id, status) => UNCHANGED db
      /\ \A id \in StoryIds : PostTask(id, NullStr) => UNCHANGED db
      /\ \A storyId \in StoryIds, taskId \in TaskIds :
           PatchTask(storyId, taskId, "undefined") => UNCHANGED db ]_vars

\* A done flag that is no boolean has been refused while the story's task is
\* done.
C19_Witness ==
  /\ reply = Reply("tasks:update", 400, Message("done flag required"))
  /\ \E t \in tasks : t.done = 1

\* C20: a create request with a title, an owner and no (or an empty)
\* description adds the story to the live stories.
C20_DescriptionOptional ==
  [][ \A u \in users :
        PostStories(StoryBody("A", NullStr, JsNumber(3)), "backlog", u.id) =>
          \E s \in stories' \ stories : s.title = "A" /\ s.owner_id = u.id ]_vars

(***************************************************************************)
(* Archive analytics                                                       *)
(***************************************************************************)
\* The instant a query parameter stands for, or the given default.
ParamTime(param, default) == IF param.kind = "date" THEN param.day * DAY_MS ELSE default

Min(a, b) == IF a <= b THEN a ELSE b

\* t is 00:00:00.000 of a day of the server's zone / the last instant of one
IsLocalMidnight(t) == (t + tz) % DAY_MS = 0
IsLocalDayEnd(t) == (t + tz + 1) % DAY_MS = 0

\* C21: for every pair of from/to inputs (absent, unparseable or a date, in
\* either order) the answer's range has from <= to; with to defaulting to
\* now (the clock as the request read it) and from to 29 days before to,
\* from is the local midnight of the day of the earlier of the two and to
\* the last instant of the day of the later.
\* (The first three lines of the premise follow from the last; they only
\* spare its evaluation for the pairs that cannot have given this answer.)
C21_WindowNormalized ==
  [][\A from \in DateParams, to \in DateParams :
       ( /\ query[1].pc = "waiting" /\ query'[1].pc = "idle"
         /\ reply'.op = "analytics:archive"
         /\ reply'.status = 200 => reply'.body.range = Window(query[1].at, from, to)
         /\ GetAnalyticsArchive(1, NoUser, from, to) ) =>
         LET to0 == ParamTime(to, query[1].at)
             from0 == ParamTime(from, to0 - 29 * DAY_MS)
             range == reply'.body.range
         IN /\ reply'.status = 200
            /\ range.from <= range.to
            /\ IsLocalMidnight(range.from)
            /\ range.from <= Min(from0, to0) /\ Min(from0, to0) < range.from + DAY_MS
            /\ IsLocalDayEnd(range.to)
            /\ range.to - DAY_MS < Max(from0, to0) /\ Max(from0, to0) <= range.to]_vars

\* from=<day 2>, which is after now, and no to, one tick ahead of UTC: the
\* window runs from the local midnight before now to the end of local day 2.
C21_Witness ==
  /\ tz = 1
  /\ reply.op = "analytics:archive" /\ reply.status = 200
  /\ reply.body.range = [from |-> 7, to |-> 10]

\* The sum of the values of a function of finite domain
RECURSIVE Total(_)
Total(f) ==
  IF DOMAIN f = {} THEN 0
  ELSE LET x == CHOOSE x \in DOMAIN f : TRUE
       IN f[x] + Total([y \in DOMAIN f \ {x} |-> f[y]])

\* The answer that stands in reply is one of the analytics
Summarized == reply.op = "analytics:archive" /\ reply.status = 200

\* The archive rows completed within the answered range, both ends included
InRange == {a \in archived : /\ reply.body.range.from <= a.completed_at
                             /\ a.completed_at <= reply.body.range.to}

\* C22: the summary of an analytics answer is computed over exactly the
\* archive rows completed within [from, to], both ends included: totalStories
\* is their count, totalPoints the sum of their estimates, totalTasks the sum
\* of the lengths of their task snapshots, doneTasks the number of snapshot
\* tasks that are done, ownerCount the number of distinct non-null owner names.
C22_Summary ==
  Summarized =>
    /\ reply.body.summary.totalStories = Cardinality(InRange)
    /\ reply.body.summary.totalPoints = Total([a \in InRange |-> a.estimate])
    /\ reply.body.summary.totalTasks =
         Total([a \in InRange |-> Len(a.tasks_json.items)])
    /\ reply.body.summary.doneTasks =
         Total([a \in InRange |->
                 Cardinality({i \in DOMAIN a.tasks_json.items : a.tasks_json.items[i].done})])
    /\ reply.body.summary.ownerCount =
         Cardinality({a.owner_name : a \in InRange} \ {NullStr})
    /\ {reply.body.stories[i].id : i \in DOMAIN reply.body.stories} = {a.id : a \in InRange}

\* Two archived stories, one completed before the window: the summary counts
\* the other one, its 3 points, its two tasks (one done) and its owner.
C22_Witness ==
  /\ Summarized
  /\ Cardinality(archived) = 2
  /\ \E a \in archived : a.completed_at < reply.body.range.from
  /\ reply.body.summary = [totalStories |-> 1, totalPoints |-> 3, totalTasks |-> 2,
                           doneTasks |-> 1, ownerCount |-> 1]

\* The velocity buckets of the answer, and the day keys of its stories
Velocity == reply.body.velocity
DayKeys == {dateKey(a.completed_at) : a \in InRange}

\* C23: the velocity of an analytics answer has one bucket per distinct
\* completion day (the day of the bucket key) of the window's stories, is
\* strictly increasing by date, and partitions the stories: each bucket
\* holds the stories and points of its day, the stories of the buckets add
\* up to summary.totalStories and their points to summary.totalPoints.
C23_Velocity ==
  Summarized =>
    /\ \A i \in DOMAIN Velocity : \A j \in DOMAIN Velocity :
         i < j => Velocity[i].date < Velocity[j].date
    /\ {Velocity[i].date : i \in DOMAIN Velocity} = DayKeys
    /\ Len(Velocity) = Cardinality(DayKeys)
    /\ \A i \in DOMAIN Velocity :
         LET day == {a \in InRange : dateKey(a.completed_at) = Velocity[i].date}
         IN /\ Velocity[i].stories = Cardinality(day)
            /\ Velocity[i].points = Total([a \in day |-> a.estimate])
    /\ Total([i \in DOMAIN Velocity |-> Velocity[i].stories])
         = reply.body.summary.totalStories
    /\ Total([i \in DOMAIN Velocity |-> Velocity[i].points])
         = reply.body.summary.totalPoints

\* Two stories completed on different days: two buckets, the earlier first.
C23_Witness ==
  /\ Summarized
  /\ Len(Velocity) = 2
  /\ Velocity[1] = [date |-> 0, stories |-> 1, points |-> 1]
  /\ Velocity[2] = [date |-> 1, stories |-> 1, points |-> 3]

\* The calendar day of an instant in the zone of the window boundaries
LocalDay(t) == (t + tz) \div DAY_MS

\* C25: the day key of a velocity bucket is taken from completedAt in the
\* zone of the window boundaries: in every zone each bucket's date is a
\* calendar day of the returned window, and the stories completed on one
\* day of that zone are counted in one bucket, the bucket of that day.
C25_DayKeyZone ==
  Summarized =>
    /\ \A i \in DOMAIN Velocity :
         /\ LocalDay(reply.body.range.from) <= Velocity[i].date
         /\ Velocity[i].date <= LocalDay(reply.body.range.to)
    /\ \A a \in InRange :
         \E i \in DOMAIN Velocity :
           /\ Velocity[i].date = LocalDay(a.completed_at)
           /\ Velocity[i].stories =
                Cardinality({b \in InRange : LocalDay(b.completed_at) = LocalDay(a.completed_at)})

\* The number of tasks, and of done tasks, of a stored snapshot: those of
\* the list when it is a list, none otherwise
SnapshotLength(j) == IF j.json = "array" THEN Len(j.items) ELSE 0
SnapshotDone(j) ==
  IF j.json = "array" THEN Cardinality({i \in DOMAIN j.items : j.items[i].done}) ELSE 0

\* C24: a stored snapshot that is malformed or not an array counts as an
\* empty task list: the analytics of a window still succeed, and such a row
\* adds nothing to totalTasks and doneTasks.
C24_SnapshotDegrades ==
  reply.op = "analytics:archive" =>
    /\ reply.status = 200
    /\ reply.body.summary.totalStories = Cardinality(InRange)
    /\ reply.body.summary.totalTasks =
         Total([a \in InRange |-> SnapshotLength(a.tasks_json)])
    /\ reply.body.summary.doneTasks =
         Total([a \in InRange |-> SnapshotDone(a.tasks_json)])

\* C26: complete loses no task: every task the story has when the call
\* deletes the live story is in the snapshot of the archive row the call
\* wrote, with the done flag it has then, whatever task requests for the
\* story were served between the call's load and its deletion.
C26_NoTaskLost ==
  [][ \A p \in Calls :
        CompleteDelete(p) =>
          \A t \in tasks :
            t.story_id = call[p].id =>
              \E a \in archived :
                /\ a.id = call[p].insertId
                /\ \E i \in DOMAIN a.tasks_json.items :
                     /\ a.tasks_json.items[i].id = t.id
                     /\ a.tasks_json.items[i].done = (t.done # 0) ]_vars

\* C27: a session established through register and login carries no role:
\* whatever role was chosen at registration, the client takes the logged-in
\* user for a developer, and canDeleteStory, canArchiveStory and
\* canViewAnalytics are false in every state of the client.
C27_SessionWithoutRole ==
  /\ policy.user # NoUser =>
       /\ policy.user.role = NoRole
       /\ userRole(policy.user) = "developer"
       /\ \E u \in users : u.id = policy.user.id
  /\ ~canDeleteStory(policy.user)
  /\ ~canArchiveStory(policy.user)
  /\ ~canViewAnalytics(policy.user)

\* The registered account is logged in, has created a story, and the list
\* the client loaded after the create holds it.
C27_Witness ==
  /\ \E u \in users : u.id = policy.user.id /\ u.username = "ann"
  /\ \E i \in DOMAIN policy.stories : policy.stories[i].ownerId = policy.user.id
  /\ reply.op = "stories:list"
  /\ reply.status = 200
====
